---- MODULE Spec2Model ----
(***************************************************************************)
(* Model of src/src/converter.py: the XACRO -> URDF expansion engine       *)
(* (class XacroToURDFConverter) and the parsing half of the URDF -> XACRO  *)
(* converter (class URDFToXacroConverter).                                 *)
(*                                                                         *)
(* A Python string is a sequence of atoms (TLA+ strings).  The atoms are   *)
(* chosen so that every string test the code makes (`"}" in tag`,         *)
(* `tag.split(":", 1)`, `tag.startswith("xacro:")`, `text.strip()`,        *)
(* `re.sub(r"\$\{([^}]+)\}", ...)`) is decided atom by atom: "{", "}",     *)
(* ":" and " " are atoms of their own, a reference "${x}" is one atom, and *)
(* no other atom contains any of these characters or the word "xacro".     *)
(* None and the empty string are both the empty sequence: the code only    *)
(* ever tests them for truth.                                              *)
(*                                                                         *)
(* An ET.Element is a record [tag, attrib, children, text, tail]; attrib   *)
(* is a function from attribute names to values.                           *)
(***************************************************************************)
EXTENDS Naturals, Sequences, FiniteSets, TLC

VARIABLES
    properties,     \* XacroToURDFConverter.properties : Dict[str, str]
    macros,         \* XacroToURDFConverter.macros     : Dict[str, ET.Element]
    includes,       \* XacroToURDFConverter.includes   : List[str]
    links,          \* URDFToXacroConverter.links      : Dict[str, LinkInfo]
    joints,         \* URDFToXacroConverter.joints     : Dict[str, JointInfo]
    materials,      \* URDFToXacroConverter.materials  : Dict[str, ET.Element]
    pc,             \* position inside convert_string / parse_urdf
    content,        \* the argument of the call in progress (or the last one)
    root,           \* parse_xacro's local `root` (mutated in place by collection)
    expanded_root,  \* parse_xacro's result
    urdf_root,      \* generate_urdf's tree, handed to the formatter
    calls,          \* number of calls made on the converter objects so far
    pending,        \* the expansion calls still to be made, innermost first
    xacro_root,     \* generate_xacro's tree, handed to the formatter
    synth_properties, \* URDFToXacroConverter.properties : Dict[str, str]
    original_root   \* URDFToXacroConverter.convert_string's local `root`

vars == <<properties, macros, includes, links, joints, materials,
          pc, content, root, expanded_root, urdf_root, calls, pending,
          xacro_root, synth_properties, original_root>>

-----------------------------------------------------------------------------
(* Bounds of the model *)

\* most children of the root of an input document (single conversion)
MaxTop == 3
\* most children of the root of an input document (repeated calls)
MaxSeqTop == 2
\* most calls on one converter object (repeated calls)
MaxCalls == 2
\* most children of the root of an input document (expansion call by call)
MaxWalkTop == 3
\* most children of the root of a flat description turned into a template
MaxSynthTop == 4

-----------------------------------------------------------------------------
(* Python strings and dictionaries *)

\* `a in s` for a one-atom needle
Contains(s, a) == \E i \in 1..Len(s) : s[i] = a

\* s.split(a)[-1]
SplitLast(s, a) ==
    LET last == CHOOSE i \in 1..Len(s) :
                    s[i] = a /\ \A j \in (i+1)..Len(s) : s[j] # a
    IN  IF Contains(s, a) THEN SubSeq(s, last + 1, Len(s)) ELSE s

\* s.split(a, 1) for a string that contains a: <<before, after>>
SplitFirst(s, a) ==
    LET first == CHOOSE i \in 1..Len(s) :
                     s[i] = a /\ \A j \in 1..(i-1) : s[j] # a
    IN  <<SubSeq(s, 1, first - 1), SubSeq(s, first + 1, Len(s))>>

\* s.startswith(p)
StartsWith(s, p) == Len(s) >= Len(p) /\ SubSeq(s, 1, Len(p)) = p

IsSpace(a) == a = " "

\* s.strip(), as a truth value
StripTruthy(s) == \E i \in 1..Len(s) : ~IsSpace(s[i])

\* [p.strip() for p in s.split() if p.strip()]
SplitWords(s) ==
    LET F[i \in 0..Len(s)] ==
            IF i = 0 THEN <<>>
            ELSE IF IsSpace(s[i]) THEN F[i-1]
            ELSE IF i > 1 /\ ~IsSpace(s[i-1])
                 THEN [F[i-1] EXCEPT ![Len(F[i-1])] = Append(@, s[i])]
                 ELSE Append(F[i-1], <<s[i]>>)
    IN  F[Len(s)]

\* d.get(k, default)
Get(d, k, default) == IF k \in DOMAIN d THEN d[k] ELSE default

\* d[k] = v
DictSet(d, k, v) == [j \in DOMAIN d \cup {k} |-> IF j = k THEN v ELSE d[j]]

\* `a or b` on strings
Or(a, b) == IF a # <<>> THEN a ELSE b

\* the identifiers that occur in references of the input documents
Identifiers ==
    {"x", "y", "p", "u", "prefix", "base_link_name", "link_name", "mesh_file", "mass"}

Reference(n) == "${" \o n \o "}"

\* the pattern r"\$\{([^}]+)\}" matches exactly the reference atoms
IsMatch(a) == \E n \in Identifiers : a = Reference(n)

\* match.group(1)
Group1(a) == <<CHOOSE n \in Identifiers : a = Reference(n)>>

\* re.sub(pattern, repl, text): one left-to-right pass over text; what a
\* replacement returns is not scanned again
re_sub(repl(_), text) ==
    LET F[i \in 0..Len(text)] ==
            IF i = 0 THEN <<>>
            ELSE F[i-1] \o (IF IsMatch(text[i]) THEN repl(text[i]) ELSE <<text[i]>>)
    IN  F[Len(text)]

-----------------------------------------------------------------------------
(* ET.Element *)

Element(tag, attrib, children, text, tail) ==
    [tag |-> tag, attrib |-> attrib, children |-> children, text |-> text, tail |-> tail]

\* ET.Element(tag): no attributes, no children, text and tail None
NewElement(tag) == Element(tag, <<>>, <<>>, <<>>, <<>>)

-----------------------------------------------------------------------------
(* Tag Resolver *)

_get_local_tag(tag) ==
    IF Contains(tag, "}") THEN SplitLast(tag, "}")
    ELSE IF Contains(tag, ":") THEN SplitLast(tag, ":")
    ELSE tag

_is_xacro_element(tag) ==
    IF Contains(tag, "}") /\ Contains(tag, "xacro") THEN TRUE
    ELSE IF Contains(tag, ":")
         THEN LET prefix == SplitFirst(tag, ":")[1]
                  local  == SplitFirst(tag, ":")[2]
              IN  local \in {<<"property">>, <<"macro">>, <<"include">>}
                  \/ prefix = <<"xacro">>
         ELSE FALSE

-----------------------------------------------------------------------------
(* Variable Store *)

_resolve_properties(props, text) ==
    re_sub(LAMBDA a : Or(Get(props, Group1(a), <<a>>), <<a>>), text)

_substitute_parameters(text, params) ==
    re_sub(LAMBDA a : Or(Get(params, Group1(a), <<a>>), <<a>>), text)

-----------------------------------------------------------------------------
(* Declaration Collector *)

\* the three fields of an XacroToURDFConverter, as one value
Converter(props, macs, incs) == [properties |-> props, macros |-> macs, includes |-> incs]

\* the collector with `elements_to_remove.append(child)` moved under
\* `if name:` for properties and macros: a declaration without a name is
\* not registered and stays in the tree
RECURSIVE CollectKeepingNameless(_, _, _, _)
CollectKeepingNameless(children, i, kept, conv) ==
    IF i > Len(children) THEN [children |-> kept, conv |-> conv]
    ELSE
    LET child     == children[i]
        local_tag == _get_local_tag(child.tag)
        name      == Get(child.attrib, <<"name">>, <<>>)
    IN  IF local_tag = <<"property">> /\ _is_xacro_element(child.tag) THEN
            IF name # <<>>
            THEN CollectKeepingNameless(children, i + 1, kept,
                    [conv EXCEPT !.properties =
                        DictSet(@, name,
                            _resolve_properties(@, Get(child.attrib, <<"value">>, <<>>)))])
            ELSE CollectKeepingNameless(children, i + 1, Append(kept, child), conv)
        ELSE IF local_tag = <<"macro">> /\ _is_xacro_element(child.tag) THEN
            IF name # <<>>
            THEN CollectKeepingNameless(children, i + 1, kept,
                    [conv EXCEPT !.macros = DictSet(@, name, child)])
            ELSE CollectKeepingNameless(children, i + 1, Append(kept, child), conv)
        ELSE IF local_tag = <<"include">> /\ _is_xacro_element(child.tag) THEN
            LET filename == Get(child.attrib, <<"filename">>, <<>>)
            IN  CollectKeepingNameless(children, i + 1, kept,
                    IF filename # <<>>
                    THEN [conv EXCEPT !.includes = Append(@, filename)]
                    ELSE conv)
        ELSE
            LET sub == CollectKeepingNameless(child.children, 1, <<>>, conv)
            IN  CollectKeepingNameless(children, i + 1,
                    Append(kept, [child EXCEPT !.children = sub.children]),
                    sub.conv)

\* the body of `for child in list(element)` for children i.. of one element,
\* followed by the removal loop: kept is what element.remove leaves, in order
RECURSIVE CollectChildren(_, _, _, _)
CollectChildren(children, i, kept, conv) ==
    IF i > Len(children) THEN [children |-> kept, conv |-> conv]
    ELSE
    LET child     == children[i]
        local_tag == _get_local_tag(child.tag)
    IN  IF local_tag = <<"property">> /\ _is_xacro_element(child.tag) THEN
            LET name  == Get(child.attrib, <<"name">>, <<>>)
                value == Get(child.attrib, <<"value">>, <<>>)
            IN  CollectChildren(children, i + 1, kept,
                    IF name # <<>>
                    THEN [conv EXCEPT !.properties =
                            DictSet(@, name, _resolve_properties(@, value))]
                    ELSE conv)
        ELSE IF local_tag = <<"macro">> /\ _is_xacro_element(child.tag) THEN
            LET name == Get(child.attrib, <<"name">>, <<>>)
            IN  CollectChildren(children, i + 1, kept,
                    IF name # <<>>
                    THEN [conv EXCEPT !.macros = DictSet(@, name, child)]
                    ELSE conv)
        ELSE IF local_tag = <<"include">> /\ _is_xacro_element(child.tag) THEN
            LET filename == Get(child.attrib, <<"filename">>, <<>>)
            IN  CollectChildren(children, i + 1, kept,
                    IF filename # <<>>
                    THEN [conv EXCEPT !.includes = Append(@, filename)]
                    ELSE conv)
        ELSE
            LET sub == CollectChildren(child.children, 1, <<>>, conv)
            IN  CollectChildren(children, i + 1,
                    Append(kept, [child EXCEPT !.children = sub.children]),
                    sub.conv)

\* the element after the call (it is mutated in place) and the converter after it
_collect_xacro_elements(element, conv) ==
    LET r == CollectChildren(element.children, 1, <<>>, conv)
    IN  [element |-> [element EXCEPT !.children = r.children], conv |-> r.conv]

-----------------------------------------------------------------------------
(* Expansion Engine *)

RECURSIVE _expand_macro_content(_, _, _)
_expand_macro_content(element, params, props) ==
    Element(element.tag,
            [k \in DOMAIN element.attrib |->
                _resolve_properties(props,
                    _substitute_parameters(element.attrib[k], params))],
            [i \in 1..Len(element.children) |->
                _expand_macro_content(element.children[i], params, props)],
            IF StripTruthy(element.text)
            THEN _resolve_properties(props,
                    _substitute_parameters(element.text, params))
            ELSE <<>>,
            <<>>)

_is_macro_call(element, macs) ==
    LET local_tag == _get_local_tag(element.tag)
    IN  \/ local_tag \in DOMAIN macs
        \/ element.tag \in DOMAIN macs
        \/ _is_xacro_element(element.tag) /\ local_tag \in DOMAIN macs

\* the list of expanded elements
_expand_macro_call(call_element, props, macs) ==
    LET macro_name == _get_local_tag(call_element.tag)
        found      == macro_name \in DOMAIN macs \/ call_element.tag \in DOMAIN macs
        macro_def  == IF macro_name \in DOMAIN macs THEN macs[macro_name]
                      ELSE macs[call_element.tag]
    IN  IF ~found THEN <<>>
        ELSE
        LET params_attr  == Get(macro_def.attrib, <<"params">>, <<>>)
            param_names  == SplitWords(params_attr)
            param_values ==
                [k \in {a \in DOMAIN call_element.attrib :
                            \E j \in 1..Len(param_names) : param_names[j] = a} |->
                    _resolve_properties(props, call_element.attrib[k])]
        IN  [i \in 1..Len(macro_def.children) |->
                _expand_macro_content(macro_def.children[i], param_values, props)]

\* _expand_xacro_elements with the recursion into ordinary children lost: an
\* ordinary child is copied as a bare ET.Element(child.tag)
ExpandShallow(element, props, macs) ==
    LET attrib ==
            [k \in {a \in DOMAIN element.attrib :
                        StartsWith(a, <<"xmlns">>)
                            => ~Contains(element.attrib[a], "xacro")} |->
                IF StartsWith(k, <<"xmlns">>) THEN element.attrib[k]
                ELSE _resolve_properties(props, element.attrib[k])]
        Out[i \in 0..Len(element.children)] ==
            IF i = 0 THEN <<>>
            ELSE LET child == element.children[i]
                 IN  IF _is_macro_call(child, macs)
                     THEN Out[i-1] \o _expand_macro_call(child, props, macs)
                     ELSE IF StartsWith(child.tag, <<"xacro", ":">>)
                             /\ ~_is_macro_call(child, macs)
                     THEN Out[i-1]
                     ELSE Append(Out[i-1], NewElement(child.tag))
    IN  Element(element.tag,
                attrib,
                Out[Len(element.children)],
                IF StripTruthy(element.text)
                THEN _resolve_properties(props, element.text) ELSE <<>>,
                IF StripTruthy(element.tail)
                THEN _resolve_properties(props, element.tail) ELSE <<>>)

RECURSIVE _expand_xacro_elements(_, _, _)
_expand_xacro_elements(element, props, macs) ==
    LET attrib ==
            [k \in {a \in DOMAIN element.attrib :
                        StartsWith(a, <<"xmlns">>)
                            => ~Contains(element.attrib[a], "xacro")} |->
                IF StartsWith(k, <<"xmlns">>) THEN element.attrib[k]
                ELSE _resolve_properties(props, element.attrib[k])]
        Out[i \in 0..Len(element.children)] ==
            IF i = 0 THEN <<>>
            ELSE LET child == element.children[i]
                 IN  IF _is_macro_call(child, macs)
                     THEN Out[i-1] \o _expand_macro_call(child, props, macs)
                     ELSE IF StartsWith(child.tag, <<"xacro", ":">>)
                             /\ ~_is_macro_call(child, macs)
                     THEN Out[i-1]
                     ELSE Append(Out[i-1], _expand_xacro_elements(child, props, macs))
    IN  Element(element.tag,
                attrib,
                Out[Len(element.children)],
                IF StripTruthy(element.text)
                THEN _resolve_properties(props, element.text) ELSE <<>>,
                IF StripTruthy(element.tail)
                THEN _resolve_properties(props, element.tail) ELSE <<>>)

-----------------------------------------------------------------------------
(* The calls the expansion pass makes *)

\* a call still to be made: _expand_xacro_elements(node) ("element"),
\* _expand_macro_call(node) ("call") or _expand_macro_content(node, ...)
\* ("content")
Frame(kind, node) == [kind |-> kind, node |-> node]

\* _expand_xacro_elements calling itself on the element it was given instead
\* of on the child
ElementCallsReentering(element, macs) ==
    IF \E i \in 1..Len(element.children) :
          /\ ~_is_macro_call(element.children[i], macs)
          /\ ~StartsWith(element.children[i].tag, <<"xacro", ":">>)
    THEN << Frame("element", element) >>
    ELSE [i \in 1..Len(element.children) |-> Frame("call", element.children[i])]

\* the calls _expand_xacro_elements(element) makes, in order
ElementCalls(element, macs) ==
    LET F[i \in 0..Len(element.children)] ==
            IF i = 0 THEN <<>>
            ELSE LET child == element.children[i]
                 IN  IF _is_macro_call(child, macs)
                     THEN Append(F[i-1], Frame("call", child))
                     ELSE IF StartsWith(child.tag, <<"xacro", ":">>)
                     THEN F[i-1]
                     ELSE Append(F[i-1], Frame("element", child))
    IN  F[Len(element.children)]

\* the calls _expand_macro_call(call_element) makes, in order
MacroCallCalls(call_element, macs) ==
    LET macro_name == _get_local_tag(call_element.tag)
        found      == macro_name \in DOMAIN macs \/ call_element.tag \in DOMAIN macs
        macro_def  == IF macro_name \in DOMAIN macs THEN macs[macro_name]
                      ELSE macs[call_element.tag]
    IN  IF ~found THEN <<>>
        ELSE [i \in 1..Len(macro_def.children) |->
                Frame("content", macro_def.children[i])]

\* the calls _expand_macro_content(element, params) makes, in order
ContentCalls(element) ==
    [i \in 1..Len(element.children) |-> Frame("content", element.children[i])]

\* the calls the call `frame` makes
CallsOf(frame, macs) ==
    IF frame.kind = "element" THEN ElementCalls(frame.node, macs)
    ELSE IF frame.kind = "call" THEN MacroCallCalls(frame.node, macs)
    ELSE ContentCalls(frame.node)

-----------------------------------------------------------------------------
(* Document Assembler, XACRO -> URDF *)

\* the tree generate_urdf hands to _format_urdf_xml
generate_urdf(robot_name, processed_root) ==
    LET Kept[i \in 0..Len(processed_root.children)] ==
            IF i = 0 THEN <<>>
            ELSE IF ~StartsWith(processed_root.children[i].tag, <<"xacro", ":">>)
                 THEN Append(Kept[i-1], processed_root.children[i])
                 ELSE Kept[i-1]
    IN  Element(<<"robot">>, <<"name">> :> robot_name,
                Kept[Len(processed_root.children)], <<>>, <<>>)

-----------------------------------------------------------------------------
(* URDF -> XACRO: parse_urdf and what it extracts *)

\* element.find(tag) is not None
HasChild(element, tag) ==
    \E i \in 1..Len(element.children) : element.children[i].tag = tag

\* element.find(tag): the first direct child with that tag
Find(element, tag) ==
    element.children[CHOOSE i \in 1..Len(element.children) :
        /\ element.children[i].tag = tag
        /\ \A j \in 1..(i-1) : element.children[j].tag # tag]

\* root.findall(tag): the direct children with that tag, in document order
FindAll(element, tag) ==
    LET F[i \in 0..Len(element.children)] ==
            IF i = 0 THEN <<>>
            ELSE IF element.children[i].tag = tag
                 THEN Append(F[i-1], element.children[i]) ELSE F[i-1]
    IN  F[Len(element.children)]

\* the strings float() accepts among those of the input documents; a float is
\* written as the literal that denotes it
FloatLiterals == {<<"0">>, <<"1">>, <<"0.5">>}

\* float(s) raises ValueError
FloatRaises(s) == s \notin FloatLiterals

\* an insertion-ordered dict is a sequence of <<key, value>>; d[k] = v
ODictSet(d, k, v) ==
    IF \E i \in 1..Len(d) : d[i][1] = k
    THEN [i \in 1..Len(d) |-> IF d[i][1] = k THEN <<k, v>> ELSE d[i]]
    ELSE Append(d, <<k, v>>)

InertiaAttrs == {<<"ixx">>, <<"ixy">>, <<"ixz">>, <<"iyy">>, <<"iyz">>, <<"izz">>}

\* the mesh filename under link_element/<kind>/geometry/mesh, or None
MeshOf(link_element, kind) ==
    IF HasChild(link_element, kind)
       /\ HasChild(Find(link_element, kind), <<"geometry">>)
       /\ HasChild(Find(Find(link_element, kind), <<"geometry">>), <<"mesh">>)
    THEN Get(Find(Find(Find(link_element, kind), <<"geometry">>), <<"mesh">>).attrib,
             <<"filename">>, <<>>)
    ELSE <<>>

\* _extract_link_info raises ValueError: a float() outside a try
ExtractLinkRaises(link_element) ==
    /\ HasChild(link_element, <<"inertial">>)
    /\ HasChild(Find(link_element, <<"inertial">>), <<"inertia">>)
    /\ \E a \in InertiaAttrs :
          FloatRaises(Get(Find(Find(link_element, <<"inertial">>), <<"inertia">>).attrib,
                          a, <<"0">>))

_extract_link_info(link_element) ==
    LET has_inertial == HasChild(link_element, <<"inertial">>)
        inertial     == Find(link_element, <<"inertial">>)
        mass_value   == Get(Find(inertial, <<"mass">>).attrib, <<"value">>, <<"0">>)
    IN  [name    |-> Get(link_element.attrib, <<"name">>, <<>>),
         element |-> link_element,
         mass    |-> IF has_inertial /\ HasChild(inertial, <<"mass">>)
                        /\ ~FloatRaises(mass_value)
                     THEN mass_value ELSE <<>>,
         inertia |-> IF has_inertial /\ HasChild(inertial, <<"inertia">>)
                     THEN [a \in InertiaAttrs |->
                            Get(Find(inertial, <<"inertia">>).attrib, a, <<"0">>)]
                     ELSE <<>>,
         visual_mesh    |-> MeshOf(link_element, <<"visual">>),
         collision_mesh |-> MeshOf(link_element, <<"collision">>)]

_extract_joint_info(joint_element) ==
    LET LinkOf(tag) == IF HasChild(joint_element, tag)
                       THEN Get(Find(joint_element, tag).attrib, <<"link">>, <<>>)
                       ELSE <<>>
        xyz    == SplitWords(Get(Find(joint_element, <<"axis">>).attrib, <<"xyz">>,
                                 <<"0", " ", "0", " ", "0">>))
        limit  == Find(joint_element, <<"limit">>).attrib
    IN  [name       |-> Get(joint_element.attrib, <<"name">>, <<>>),
         element    |-> joint_element,
         joint_type |-> Get(joint_element.attrib, <<"type">>, <<>>),
         parent     |-> LinkOf(<<"parent">>),
         child      |-> LinkOf(<<"child">>),
         axis       |-> IF HasChild(joint_element, <<"axis">>)
                           /\ Len(xyz) = 3
                           /\ \A i \in 1..Len(xyz) : ~FloatRaises(xyz[i])
                        THEN xyz ELSE <<>>,
         limits     |-> IF HasChild(joint_element, <<"limit">>)
                        THEN [a \in {b \in {<<"lower">>, <<"upper">>, <<"effort">>,
                                            <<"velocity">>} :
                                        b \in DOMAIN limit /\ ~FloatRaises(limit[b])} |->
                                limit[a]]
                        ELSE <<>>]

\* the three fields of a URDFToXacroConverter that parse_urdf writes
UrdfConverter(ls, js, ms) == [links |-> ls, joints |-> js, materials |-> ms]

\* the loop over root.findall("link") from the i-th link on: the links dict
\* after it, and whether _extract_link_info raised (the loop stops there)
RECURSIVE ExtractLinks(_, _, _)
ExtractLinks(found, i, ls) ==
    IF i > Len(found) THEN [raised |-> FALSE, links |-> ls]
    ELSE IF ExtractLinkRaises(found[i]) THEN [raised |-> TRUE, links |-> ls]
    ELSE ExtractLinks(found, i + 1,
            ODictSet(ls, _extract_link_info(found[i]).name, _extract_link_info(found[i])))

ExtractJoints(found, js) ==
    LET F[i \in 0..Len(found)] ==
            IF i = 0 THEN js
            ELSE ODictSet(F[i-1], _extract_joint_info(found[i]).name,
                          _extract_joint_info(found[i]))
    IN  F[Len(found)]

ExtractMaterials(found, ms) ==
    LET F[i \in 0..Len(found)] ==
            IF i = 0 THEN ms
            ELSE IF Get(found[i].attrib, <<"name">>, <<>>) # <<>>
                 THEN ODictSet(F[i-1], found[i].attrib[<<"name">>], found[i])
                 ELSE F[i-1]
    IN  F[Len(found)]

\* ET.fromstring(text): a text is either not well-formed XML (ParseError) or
\* the tree it parses to
Content(wellformed, tree) == [wellformed |-> wellformed, root |-> tree]

\* parse_urdf(urdf_content) on a converter: whether it raised, and the
\* converter after the call
parse_urdf(urdf_content, conv) ==
    IF ~urdf_content.wellformed THEN [raised |-> TRUE, conv |-> conv]
    ELSE IF urdf_content.root.tag # <<"robot">> THEN [raised |-> TRUE, conv |-> conv]
    ELSE
    LET r == ExtractLinks(FindAll(urdf_content.root, <<"link">>), 1, conv.links)
    IN  IF r.raised
        THEN [raised |-> TRUE, conv |-> [conv EXCEPT !.links = r.links]]
        ELSE [raised |-> FALSE,
              conv   |-> UrdfConverter(
                            r.links,
                            ExtractJoints(FindAll(urdf_content.root, <<"joint">>),
                                          conv.joints),
                            ExtractMaterials(FindAll(urdf_content.root, <<"material">>),
                                             conv.materials))]

\* parse_xacro with the root check made after the collection pass
ChecksAfterCollection(xacro_content, conv) ==
    IF ~xacro_content.wellformed THEN [raised |-> TRUE, conv |-> conv]
    ELSE IF xacro_content.root.tag # <<"robot">>
         THEN [raised |-> TRUE,
               conv   |-> _collect_xacro_elements(xacro_content.root, conv).conv]
    ELSE [raised |-> FALSE, conv |-> conv]

\* the first lines of parse_xacro, up to the root check: whether it raised,
\* and the converter as those lines leave it
parse_xacro_checks(xacro_content, conv) ==
    IF ~xacro_content.wellformed THEN [raised |-> TRUE, conv |-> conv]
    ELSE IF xacro_content.root.tag # <<"robot">> THEN [raised |-> TRUE, conv |-> conv]
    ELSE [raised |-> FALSE, conv |-> conv]

-----------------------------------------------------------------------------
(* Input documents *)

\* the tag ET.fromstring gives an element written xacro:local under
\* xmlns:xacro="http://www.ros.org/wiki/xacro"
XacroNamespace == <<"{", "http", ":", "//www.ros.org/wiki/", "xacro", "}">>

XacroTag(local) == XacroNamespace \o <<local>>

\* the tag of an element of some other namespace
OtherTag(local) == <<"{", "http", ":", "//example.org/ns", "}", local>>

\* an element with attributes and children, no text
Node(tag, attrib, children) == Element(tag, attrib, children, <<>>, <<>>)

PropertyDecl(name, value) ==
    Node(XacroTag("property"), (<<"name">> :> name) @@ (<<"value">> :> value), <<>>)

\* <xacro:property value="1"/>: no name
NamelessDecl == Node(XacroTag("property"), <<"value">> :> <<"1">>, <<>>)

\* <xacro:macro name="m" params="p x">
\*   <link name="${p}${x}"><radius value="${p}">${x}</radius></link>
\* </xacro:macro>
LinkMacro ==
    Node(XacroTag("macro"),
         (<<"name">> :> <<"m">>) @@ (<<"params">> :> <<"p", " ", "x">>),
         << Node(<<"link">>, <<"name">> :> <<"${p}", "${x}">>,
                 << Element(<<"radius">>, <<"value">> :> <<"${p}">>, <<>>,
                            <<"${x}">>, <<>>) >>) >>)

\* <xacro:macro name="n" params="p"><xacro:m p="${p}" x="b"/></xacro:macro>
OuterMacro ==
    Node(XacroTag("macro"),
         (<<"name">> :> <<"n">>) @@ (<<"params">> :> <<"p">>),
         << Node(XacroTag("m"), (<<"p">> :> <<"${p}">>) @@ (<<"x">> :> <<"b">>), <<>>) >>)

\* <xacro:macro name="m" params="p"><joint name="${p}"/><xacro:m p="${p}"/></xacro:macro>
SelfMacro ==
    Node(XacroTag("macro"),
         (<<"name">> :> <<"m">>) @@ (<<"params">> :> <<"p">>),
         << Node(<<"joint">>, <<"name">> :> <<"${p}">>, <<>>),
            Node(XacroTag("m"), <<"p">> :> <<"${p}">>, <<>>) >>)

Call(name, attrib) == Node(XacroTag(name), attrib, <<>>)

\* <property name="x" value="1"><o:property/></property>: the declaration
\* keyword without the template namespace
BareProperty ==
    Node(<<"property">>, (<<"name">> :> <<"x">>) @@ (<<"value">> :> <<"1">>),
         << Node(OtherTag("property"), <<>>, <<>>) >>)

\* <link name="${x}" type="${u}">${x}
\*   <origin xyz="${x}"/><xacro:include filename="f"/><property .../>
\* </link>
RefLink ==
    Element(<<"link">>, (<<"name">> :> <<"${x}">>) @@ (<<"type">> :> <<"${u}">>),
            << Node(<<"origin">>, <<"xyz">> :> <<"${x}">>, <<>>),
               Node(XacroTag("include"), <<"filename">> :> <<"f">>, <<>>),
               BareProperty >>,
            <<"${x}">>, <<>>)

\* <link name="a"> <visual xmlnsx="a xacro"/></link>
PlainLinkA ==
    Element(<<"link">>, <<"name">> :> <<"a">>,
            << Node(<<"visual">>, <<"xmlns", "x">> :> <<"a", " ", "xacro">>, <<>>) >>,
            <<" ">>, <<>>)

\* <link name="b"><visual kind="box"/></link>
PlainLinkB ==
    Node(<<"link">>, <<"name">> :> <<"b">>,
         << Node(<<"visual">>, <<"kind">> :> <<"box">>, <<>>) >>)

\* <xacro:macro params="p"><link name="${p}"/></xacro:macro>: no name
NamelessMacro ==
    Node(XacroTag("macro"), <<"params">> :> <<"p">>,
         << Node(<<"link">>, <<"name">> :> <<"${p}">>, <<>>) >>)

\* <group>
\*   <xacro:property name="x" value="${y}"/><xacro:property value="1"/>
\*   <xacro:macro params="p">...</xacro:macro>
\*   <xacro:property name="y" value="2"/>
\* </group>
Group ==
    Node(<<"group">>, <<>>,
         << PropertyDecl(<<"x">>, <<"${y}">>), NamelessDecl, NamelessMacro,
            PropertyDecl(<<"y">>, <<"2">>) >>)

\* the children an input document's root is made of
TopPool ==
    { PropertyDecl(<<"x">>, <<"1">>), PropertyDecl(<<"x">>, <<>>),
      PropertyDecl(<<"y">>, <<"2">>), PropertyDecl(<<"y">>, <<"${x}">>), Group,
      LinkMacro, OuterMacro, SelfMacro,
      Call("m", (<<"p">> :> <<"a">>) @@ (<<"x">> :> <<"b">>)),
      Call("m", (<<"p">> :> <<"a">>) @@ (<<"x">> :> <<>>)),
      Call("m", (<<"p">> :> <<"${x}">>) @@ (<<"x">> :> <<>>)),
      Call("n", <<"p">> :> <<"a">>),
      RefLink, PlainLinkA, PlainLinkB }

\* the smaller pool of the documents of repeated calls
SeqPool ==
    { PropertyDecl(<<"x">>, <<"1">>), LinkMacro,
      Call("m", (<<"p">> :> <<"a">>) @@ (<<"x">> :> <<"b">>)),
      RefLink }

\* the pool of the documents whose expansion is followed call by call
WalkPool ==
    { LinkMacro, OuterMacro, SelfMacro,
      Call("m", (<<"p">> :> <<"a">>) @@ (<<"x">> :> <<"b">>)),
      Call("n", <<"p">> :> <<"a">>),
      PlainLinkA }

\* the sequences over S of length k
SeqsOf(S, k) == [1..k -> S]

Robot(children) == Node(<<"robot">>, <<"name">> :> <<"r">>, children)

NoElement == NewElement(<<>>)

\* texts that are not well-formed XML, and documents whose root is not
\* `robot` (one of them a robot in the template namespace)
BadContents ==
    { Content(FALSE, NoElement),
      Content(TRUE, Node(<<"model">>, <<"name">> :> <<"r">>,
                         << PropertyDecl(<<"x">>, <<"1">>), PlainLinkB >>)),
      Content(TRUE, Node(XacroTag("robot"), <<"name">> :> <<"r">>,
                         << LinkMacro, PlainLinkB >>)) }

\* the text of a document whose root is <robot name="r"> with these children
RobotContent(children) == Content(TRUE, Robot(children))

\* <link name="b"> with mass, inertia and a visual mesh
HeavyLink ==
    Node(<<"link">>, <<"name">> :> <<"b">>,
         << Node(<<"inertial">>, <<>>,
                 << Node(<<"mass">>, <<"value">> :> <<"1">>, <<>>),
                    Node(<<"inertia">>, <<"ixx">> :> <<"0.5">>, <<>>) >>),
            Node(<<"visual">>, <<>>,
                 << Node(<<"geometry">>, <<>>,
                         << Node(<<"mesh">>, <<"filename">> :> <<"arm.stl">>, <<>>) >>) >>) >>)

\* <link name="c"> whose inertia does not parse as a number
BadInertiaLink ==
    Node(<<"link">>, <<"name">> :> <<"c">>,
         << Node(<<"inertial">>, <<>>,
                 << Node(<<"inertia">>, <<"ixx">> :> <<"heavy">>, <<>>) >>) >>)

FixedJoint ==
    Node(<<"joint">>, (<<"name">> :> <<"j">>) @@ (<<"type">> :> <<"fixed">>),
         << Node(<<"parent">>, <<"link">> :> <<"a">>, <<>>),
            Node(<<"child">>, <<"link">> :> <<"b">>, <<>>),
            Node(<<"axis">>, <<"xyz">> :> <<"0", " ", "0", " ", "1">>, <<>>),
            Node(<<"limit">>, (<<"lower">> :> <<"0">>) @@ (<<"upper">> :> <<"far">>),
                 <<>>) >>)

UrdfPool ==
    { Node(<<"link">>, <<"name">> :> <<"a">>, <<>>), HeavyLink, BadInertiaLink,
      FixedJoint, Node(<<"material">>, <<"name">> :> <<"grey">>, <<>>) }

\* the smaller pool of robot descriptions used when calls are repeated
SeqUrdfPool == { HeavyLink, BadInertiaLink, FixedJoint }

\* the robot_name argument of convert_string: None, or a name
RobotNames == {<<>>, <<"bot">>}

-----------------------------------------------------------------------------
(* URDF -> XACRO: generate_xacro and what it builds *)

\* s.split(sep) for a one-atom separator
Split(s, sep) ==
    LET F[i \in 0..Len(s)] ==
            IF i = 0 THEN << <<>> >>
            ELSE IF s[i] = sep THEN Append(F[i-1], <<>>)
            ELSE [F[i-1] EXCEPT ![Len(F[i-1])] = Append(@, s[i])]
    IN  F[Len(s)]

\* s.rsplit(a, 1)[0]
BeforeLast(s, a) ==
    LET last == CHOOSE i \in 1..Len(s) :
                    s[i] = a /\ \A j \in (i+1)..Len(s) : s[j] # a
    IN  IF Contains(s, a) THEN SubSeq(s, 1, last - 1) ELSE s

\* "package://" in s
HasPackage(s) ==
    \E i \in 1..Len(s) :
        i + 2 <= Len(s) /\ SubSeq(s, i, i + 2) = <<"package:", "/", "/">>

\* d[k] of an insertion-ordered dict, or default
ODictGet(d, k, default) ==
    IF \E i \in 1..Len(d) : d[i][1] = k
    THEN d[CHOOSE i \in 1..Len(d) : d[i][1] = k][2]
    ELSE default

\* float(s) in quarters, for the literals float() accepts
FloatValue(s) == IF s = <<"1">> THEN 4 ELSE IF s = <<"0.5">> THEN 2 ELSE 0

\* str(f) of a float of q quarters
StrOfFloat(q) ==
    IF q = 0 THEN <<"0.0">>
    ELSE IF q = 1 THEN <<"0.25">>
    ELSE IF q = 2 THEN <<"0.5">>
    ELSE IF q = 3 THEN <<"0.75">>
    ELSE <<"1.0">>

_extract_mesh_pattern(mesh_filename) ==
    LET parts == Split(mesh_filename, "/")
    IN  IF mesh_filename = <<>> THEN <<"unknown">>
        ELSE IF HasPackage(mesh_filename) /\ Len(parts) >= 3
        THEN parts[2] \o <<"_">> \o BeforeLast(parts[Len(parts)], ".")
        ELSE <<"default">>

\* the dict pattern name -> list of LinkInfo, in insertion order
_identify_common_patterns(ls) ==
    LET mesh_patterns[i \in 0..Len(ls)] ==
            IF i = 0 THEN <<>>
            ELSE LET link      == ls[i][2]
                     mesh_base == _extract_mesh_pattern(link.visual_mesh)
                 IN  IF link.visual_mesh # <<>>
                     THEN ODictSet(mesh_patterns[i-1], mesh_base,
                            Append(ODictGet(mesh_patterns[i-1], mesh_base, <<>>), link))
                     ELSE mesh_patterns[i-1]
        found == mesh_patterns[Len(ls)]
        patterns[i \in 0..Len(found)] ==
            IF i = 0 THEN <<>>
            ELSE IF Len(found[i][2]) > 1
                 THEN Append(patterns[i-1], << <<"mesh_">> \o found[i][1], found[i][2] >>)
                 ELSE patterns[i-1]
    IN  patterns[Len(found)]

\* self.properties after _create_properties()
_create_properties(props, ls) ==
    LET masses[i \in 0..Len(ls)] ==
            IF i = 0 THEN <<>>
            ELSE IF ls[i][2].mass # <<>> THEN Append(masses[i-1], FloatValue(ls[i][2].mass))
            ELSE masses[i-1]
        all == masses[Len(ls)]
        sum[i \in 0..Len(all)] == IF i = 0 THEN 0 ELSE sum[i-1] + all[i]
        with_mass == IF all # <<>>
                     THEN ODictSet(props, <<"default_mass">>,
                                   StrOfFloat(sum[Len(all)] \div Len(all)))
                     ELSE props
    IN  ODictSet(
          ODictSet(
            ODictSet(
              ODictSet(with_mass, <<"default_color">>,
                       <<"0.8", " ", "0.8", " ", "0.8", " ", "1.0">>),
              <<"package_name">>, <<"robot_description">>),
            <<"prefix">>, <<>>),
          <<"base_link_name">>, <<"base_link">>)

\* the children _parameterize_link_element gives target_elem
RECURSIVE _parameterize_link_element(_)
_parameterize_link_element(source_elem) ==
    [i \in 1..Len(source_elem.children) |->
        LET child == source_elem.children[i]
        IN  Element(child.tag,
                [k \in DOMAIN child.attrib |->
                    IF k = <<"filename">> /\ HasPackage(child.attrib[k])
                    THEN <<Reference("mesh_file")>>
                    ELSE IF k = <<"value">> /\ child.tag = <<"mass">>
                    THEN <<Reference("mass")>>
                    ELSE child.attrib[k]],
                IF Len(child.children) > 0
                THEN _parameterize_link_element(child) ELSE <<>>,
                IF Len(child.children) = 0 /\ StripTruthy(child.text)
                THEN child.text ELSE <<>>,
                <<>>)]

\* the macro element, or None (NoElement) for a template without children
_create_link_macro(pattern_name, template_link) ==
    IF Len(template_link.element.children) = 0 THEN NoElement
    ELSE Element(<<"xacro", ":", "macro">>,
            (<<"name">> :> (pattern_name \o <<"_link">>))
            @@ (<<"params">> :>
                    (<<"prefix", " ", "link_name", " ", "mesh_file">>
                     \o (IF template_link.mass # <<>> THEN <<" ", "mass">> ELSE <<>>))),
            << Element(<<"link">>,
                       <<"name">> :> <<Reference("prefix"), Reference("link_name")>>,
                       _parameterize_link_element(template_link.element),
                       <<>>, <<>>) >>,
            <<>>, <<>>)

\* _create_macro_call(pattern_name, link, use_prefix=True)
_create_macro_call(pattern_name, link) ==
    Element(<<"xacro", ":">> \o pattern_name \o <<"_link">>,
        (<<"prefix">> :> <<Reference("prefix")>>)
        @@ (<<"link_name">> :>
                (IF link.name = <<"base_link">> THEN <<Reference("base_link_name")>>
                 ELSE link.name))
        @@ (IF link.visual_mesh # <<>> THEN <<"mesh_file">> :> link.visual_mesh
            ELSE <<>>)
        @@ (IF link.mass # <<>> THEN <<"mass">> :> StrOfFloat(FloatValue(link.mass))
            ELSE <<>>),
        <<>>, <<>>, <<>>)

\* the children _copy_element_with_parameterization gives target
RECURSIVE _copy_element_with_parameterization(_)
_copy_element_with_parameterization(source) ==
    [i \in 1..Len(source.children) |->
        LET child == source.children[i]
        IN  Element(child.tag,
                child.attrib,
                IF Len(child.children) > 0
                THEN _copy_element_with_parameterization(child) ELSE <<>>,
                IF Len(child.children) = 0 /\ StripTruthy(child.text)
                THEN child.text ELSE <<>>,
                <<>>)]

_create_prefixed_link(link) ==
    LET copied[i \in 0..Len(link.element.children)] ==
            IF i = 0 THEN <<>>
            ELSE copied[i-1]
                 \o _copy_element_with_parameterization(link.element.children[i])
    IN  Element(<<"link">>,
            <<"name">> :>
                (IF link.name = <<"base_link">>
                 THEN <<Reference("prefix"), Reference("base_link_name")>>
                 ELSE <<Reference("prefix")>> \o link.name),
            copied[Len(link.element.children)],
            <<>>, <<>>)

_create_prefixed_joint(joint) ==
    Element(<<"joint">>,
        [k \in DOMAIN joint.element.attrib |->
            IF k = <<"name">> THEN <<Reference("prefix")>> \o joint.element.attrib[k]
            ELSE joint.element.attrib[k]],
        [i \in 1..Len(joint.element.children) |->
            LET child == joint.element.children[i]
            IN  Element(child.tag,
                    [k \in DOMAIN child.attrib |->
                        IF k = <<"link">>
                        THEN IF child.attrib[k] = <<"base_link">>
                             THEN <<Reference("prefix"), Reference("base_link_name")>>
                             ELSE <<Reference("prefix")>> \o child.attrib[k]
                        ELSE child.attrib[k]],
                    IF Len(child.children) > 0
                    THEN _copy_element_with_parameterization(child) ELSE <<>>,
                    IF Len(child.children) = 0 /\ StripTruthy(child.text)
                    THEN child.text ELSE <<>>,
                    <<>>)],
        <<>>, <<>>)

\* the macro definitions of the patterns, in order
SubMacros(patterns) ==
    LET F[i \in 0..Len(patterns)] ==
            IF i = 0 THEN <<>>
            ELSE LET sub_macro == _create_link_macro(patterns[i][1], patterns[i][2][1])
                 IN  IF sub_macro # NoElement THEN Append(F[i-1], sub_macro)
                     ELSE F[i-1]
    IN  F[Len(patterns)]

\* the loop over patterns and their links from link k of pattern i on: the
\* macro calls appended and processed_links after it
RECURSIVE PatternCalls(_, _, _, _, _)
PatternCalls(patterns, i, k, out, processed_links) ==
    IF i > Len(patterns) THEN [out |-> out, processed_links |-> processed_links]
    ELSE IF k > Len(patterns[i][2])
    THEN PatternCalls(patterns, i + 1, 1, out, processed_links)
    ELSE LET link == patterns[i][2][k]
         IN  PatternCalls(patterns, i, k + 1,
                IF link.name \notin processed_links
                THEN Append(out, _create_macro_call(patterns[i][1], link))
                ELSE out,
                processed_links \cup {link.name})

\* _create_main_robot_macro with the remaining links not tested against
\* processed_links
MainMacroOfAllLinks(robot_name, ls, js) ==
    LET patterns == _identify_common_patterns(ls)
        called   == PatternCalls(patterns, 1, 1, <<>>, {})
    IN  Element(<<"xacro", ":", "macro">>,
            (<<"name">> :> robot_name)
            @@ (<<"params">> :> <<"prefix", " ", "base_link_name">>),
            SubMacros(patterns)
            \o called.out
            \o [i \in 1..Len(ls) |-> _create_prefixed_link(ls[i][2])]
            \o [i \in 1..Len(js) |-> _create_prefixed_joint(js[i][2])],
            <<>>, <<>>)

_create_main_robot_macro(robot_name, ls, js) ==
    LET patterns == _identify_common_patterns(ls)
        called   == PatternCalls(patterns, 1, 1, <<>>, {})
        remaining[i \in 0..Len(ls)] ==
            IF i = 0 THEN <<>>
            ELSE IF ls[i][2].name \notin called.processed_links
                 THEN Append(remaining[i-1], _create_prefixed_link(ls[i][2]))
                 ELSE remaining[i-1]
    IN  Element(<<"xacro", ":", "macro">>,
            (<<"name">> :> robot_name)
            @@ (<<"params">> :> <<"prefix", " ", "base_link_name">>),
            SubMacros(patterns)
            \o called.out
            \o remaining[Len(ls)]
            \o [i \in 1..Len(js) |-> _create_prefixed_joint(js[i][2])],
            <<>>, <<>>)

\* generate_xacro(robot_name, original_root) on a converter whose fields are
\* props, ls, js and ms: the tree handed to _format_xacro_xml and
\* self.properties after the call
generate_xacro(robot_name, props, ls, js, ms) ==
    LET created == _create_properties(props, ls)
    IN  [properties |-> created,
         root |->
            Element(<<"robot">>,
                (<<"name">> :> robot_name)
                @@ (<<"xmlns", ":", "xacro">> :>
                        <<"http", ":", "//www.ros.org/wiki/", "xacro">>),
                [i \in 1..Len(created) |->
                    Element(<<"xacro", ":", "property">>,
                            (<<"name">> :> created[i][1])
                            @@ (<<"value">> :> created[i][2]),
                            <<>>, <<>>, <<>>)]
                \o [i \in 1..Len(ms) |-> ms[i][2]]
                \o << _create_main_robot_macro(robot_name, ls, js) >>
                \o << Element(<<"xacro", ":">> \o robot_name,
                              (<<"prefix">> :> <<Reference("prefix")>>)
                              @@ (<<"base_link_name">> :>
                                    <<Reference("base_link_name")>>),
                              <<>>, <<>>, <<>>) >>,
                <<>>, <<>>)]

\* the tree ET.fromstring gives for the text _format_xacro_xml writes for
\* element: a tag written xacro:local is in the namespace that xmlns:xacro
\* declares, the declaration is no attribute, and the indentation of the
\* pretty-printer is the text of every element with children and the tail
\* of every element but the root
RECURSIVE Reparsed(_, _)
Reparsed(element, is_root) ==
    Element(IF StartsWith(element.tag, <<"xacro", ":">>)
            THEN XacroNamespace \o SubSeq(element.tag, 3, Len(element.tag))
            ELSE element.tag,
            [k \in {a \in DOMAIN element.attrib : ~StartsWith(a, <<"xmlns", ":">>)} |->
                element.attrib[k]],
            [i \in 1..Len(element.children) |-> Reparsed(element.children[i], FALSE)],
            IF Len(element.children) > 0 THEN <<" ">> ELSE element.text,
            IF is_root THEN <<>> ELSE <<" ">>)

\* the text generate_xacro returns, as the content a parser is given
_format_xacro_xml(element) == Content(TRUE, Reparsed(element, TRUE))

\* <link name="a"/>
LinkA == Node(<<"link">>, <<"name">> :> <<"a">>, <<>>)

\* a second <link name="a">, with a mass
MassiveLinkA ==
    Node(<<"link">>, <<"name">> :> <<"a">>,
         << Node(<<"inertial">>, <<>>,
                 << Node(<<"mass">>, <<"value">> :> <<"0.5">>, <<>>) >>) >>)

\* the visual of a link with a mesh of package pkg
PackageVisual(file) ==
    Node(<<"visual">>, <<>>,
         << Node(<<"geometry">>, <<>>,
                 << Node(<<"mesh">>,
                         <<"filename">> :> (<<"package:", "/", "/", "pkg", "/">> \o file),
                         <<>>) >>) >>)

\* <link name="base_link"> with the mesh arm.stl and a mass
BaseLink ==
    Node(<<"link">>, <<"name">> :> <<"base_link">>,
         << PackageVisual(<<"arm", ".", "stl">>),
            Node(<<"inertial">>, <<>>,
                 << Node(<<"mass">>, <<"value">> :> <<"1">>, <<>>) >>) >>)

\* <link name="b"> with the mesh arm.dae
MeshLinkB ==
    Node(<<"link">>, <<"name">> :> <<"b">>, << PackageVisual(<<"arm", ".", "dae">>) >>)

\* a second <joint name="j">, from base_link
RevoluteJoint ==
    Node(<<"joint">>, (<<"name">> :> <<"j">>) @@ (<<"type">> :> <<"revolute">>),
         << Node(<<"parent">>, <<"link">> :> <<"base_link">>, <<>>),
            Node(<<"child">>, <<"link">> :> <<"a">>, <<>>) >>)

\* the templates converted directly where flat descriptions are turned into
\* templates
SynthXacroPool == { PropertyDecl(<<"x">>, <<"1">>) }

\* the pool of the flat robot descriptions that are turned into templates
SynthPool ==
    { LinkA, MassiveLinkA, BaseLink, MeshLinkB, FixedJoint, RevoluteJoint,
      Node(<<"material">>, <<"name">> :> <<"grey">>, <<>>) }

-----------------------------------------------------------------------------
(* The converters as a state machine *)

Init ==
    /\ properties = <<>>
    /\ macros = <<>>
    /\ includes = <<>>
    /\ links = <<>>
    /\ joints = <<>>
    /\ materials = <<>>
    /\ pc = "idle"
    /\ content = Content(FALSE, NoElement)
    /\ root = NoElement
    /\ expanded_root = NoElement
    /\ urdf_root = NoElement
    /\ calls = 0
    /\ pending = <<>>
    /\ xacro_root = NoElement
    /\ synth_properties = <<>>
    /\ original_root = NoElement

\* no call is in progress
Callable == pc \in {"idle", "done", "parsed", "xacro", "error"}

\* convert_string(c) is called and parse_xacro runs up to the root check
ParseXacro(c, limit) ==
    /\ Callable
    /\ calls < limit
    /\ calls' = calls + 1
    /\ content' = c
    /\ expanded_root' = NoElement
    /\ urdf_root' = NoElement
    /\ LET r == parse_xacro_checks(c, Converter(properties, macros, includes))
       IN  /\ properties' = r.conv.properties
           /\ macros' = r.conv.macros
           /\ includes' = r.conv.includes
           /\ pc' = IF r.raised THEN "error" ELSE "collect"
           /\ root' = IF r.raised THEN NoElement ELSE c.root
    /\ UNCHANGED <<links, joints, materials, pending, xacro_root,
                   synth_properties, original_root>>

\* first pass: self._collect_xacro_elements(root, base_path)
Collect ==
    /\ pc = "collect"
    /\ LET r == _collect_xacro_elements(root, Converter(properties, macros, includes))
       IN  /\ root' = r.element
           /\ properties' = r.conv.properties
           /\ macros' = r.conv.macros
           /\ includes' = r.conv.includes
    /\ pc' = "expand"
    /\ UNCHANGED <<links, joints, materials, content, expanded_root, urdf_root,
                   calls, pending, xacro_root,
                   synth_properties, original_root>>

\* the second pass rewriting the collected tree in place instead of building
\* a new one
ExpandInPlace ==
    /\ pc = "expand"
    /\ expanded_root' = _expand_xacro_elements(root, properties, macros)
    /\ root' = expanded_root'
    /\ pc' = "generate"
    /\ UNCHANGED <<properties, macros, includes, links, joints, materials,
                   content, urdf_root, calls, pending, xacro_root,
                   synth_properties, original_root>>

\* second pass: expanded_root = self._expand_xacro_elements(root)
Expand ==
    /\ pc = "expand"
    /\ expanded_root' = _expand_xacro_elements(root, properties, macros)
    /\ pc' = "generate"
    /\ UNCHANGED <<properties, macros, includes, links, joints, materials,
                   content, root, urdf_root, calls, pending, xacro_root,
                   synth_properties, original_root>>

\* convert_string's tail: the robot name, then generate_urdf
GenerateUrdf(robot_name) ==
    /\ pc = "generate"
    /\ urdf_root' = generate_urdf(
            IF robot_name = <<>>
            THEN Get(expanded_root.attrib, <<"name">>, <<"robot">>)
            ELSE robot_name,
            expanded_root)
    /\ pc' = "done"
    /\ UNCHANGED <<properties, macros, includes, links, joints, materials,
                   content, root, expanded_root, calls, pending, xacro_root,
                   synth_properties, original_root>>

\* parse_urdf(c) is called on the URDF -> XACRO converter
ParseUrdf(c, limit) ==
    /\ Callable
    /\ calls < limit
    /\ calls' = calls + 1
    /\ content' = c
    /\ root' = NoElement
    /\ expanded_root' = NoElement
    /\ urdf_root' = NoElement
    /\ LET r == parse_urdf(c, UrdfConverter(links, joints, materials))
       IN  /\ links' = r.conv.links
           /\ joints' = r.conv.joints
           /\ materials' = r.conv.materials
           /\ pc' = IF r.raised THEN "error" ELSE "parsed"
    /\ xacro_root' = NoElement
    /\ original_root' = IF parse_urdf(c, UrdfConverter(links, joints, materials)).raised
                        THEN NoElement ELSE c.root
    /\ UNCHANGED <<properties, macros, includes, pending, synth_properties>>

\* the calls a client can make, on documents of at most n top-level
\* children drawn from pool (urdf_pool for parse_urdf), while fewer than
\* limit calls were made
Calls(pool, urdf_pool, n, limit) ==
    /\ Callable
    /\ calls < limit
    /\ \/ \E k \in 0..n : \E children \in SeqsOf(pool, k) :
             ParseXacro(RobotContent(children), limit)
       \/ \E c \in BadContents : ParseXacro(c, limit)
       \/ \E k \in 0..n : \E children \in SeqsOf(urdf_pool, k) :
             ParseUrdf(RobotContent(children), limit)
       \/ \E c \in BadContents : ParseUrdf(c, limit)

\* the steps of a call in progress
Steps ==
    \/ Collect
    \/ Expand
    \/ \E n \in RobotNames : GenerateUrdf(n)

\* the second pass, call by call: parse_xacro calls
\* self._expand_xacro_elements(root)
BeginExpand ==
    /\ pc = "expand"
    /\ pending' = << Frame("element", root) >>
    /\ pc' = "walk"
    /\ UNCHANGED <<properties, macros, includes, links, joints, materials,
                   content, root, expanded_root, urdf_root, calls, xacro_root,
                   synth_properties, original_root>>

\* the innermost pending call runs up to its own calls, which become the
\* innermost pending ones
Visit ==
    /\ pc = "walk"
    /\ pending # <<>>
    /\ pending' = CallsOf(Head(pending), macros) \o Tail(pending)
    /\ UNCHANGED <<properties, macros, includes, links, joints, materials,
                   pc, content, root, expanded_root, urdf_root, calls, xacro_root,
                   synth_properties, original_root>>

\* every call has returned: parse_xacro returns expanded_root
EndExpand ==
    /\ pc = "walk"
    /\ pending = <<>>
    /\ expanded_root' = _expand_xacro_elements(root, properties, macros)
    /\ pc' = "generate"
    /\ UNCHANGED <<properties, macros, includes, links, joints, materials,
                   content, root, urdf_root, calls, pending, xacro_root,
                   synth_properties, original_root>>

\* the steps of a call in progress, the expansion pass call by call
WalkSteps ==
    \/ Collect
    \/ BeginExpand
    \/ Visit
    \/ EndExpand
    \/ \E n \in RobotNames : GenerateUrdf(n)

\* URDFToXacroConverter.convert_string's tail: the robot name, then
\* generate_xacro
GenerateXacro(robot_name) ==
    /\ pc = "parsed"
    /\ LET r == generate_xacro(
                    IF robot_name = <<>>
                    THEN Get(original_root.attrib, <<"name">>, <<"robot">>)
                    ELSE robot_name,
                    synth_properties, links, joints, materials)
       IN  /\ xacro_root' = r.root
           /\ synth_properties' = r.properties
    /\ pc' = "xacro"
    /\ UNCHANGED <<properties, macros, includes, links, joints, materials,
                   content, root, expanded_root, urdf_root, calls, pending,
                   original_root>>

\* the text generate_xacro returned is given to
\* XacroToURDFConverter.convert_string
ConvertGenerated ==
    /\ pc = "xacro"
    /\ ParseXacro(_format_xacro_xml(xacro_root), calls + 1)

\* the steps of a call in progress, both directions, and the conversion of
\* a generated template back
SynthSteps ==
    \/ Steps
    \/ \E n \in RobotNames : GenerateXacro(n)
    \/ ConvertGenerated

\* one conversion by a freshly constructed converter, as main() does
Next == Calls(TopPool, UrdfPool, MaxTop, 1) \/ Steps

Spec == Init /\ [][Next]_vars

\* repeated calls on the same converter objects
NextSeq == Calls(SeqPool, SeqUrdfPool, MaxSeqTop, MaxCalls) \/ Steps

SpecSeq == Init /\ [][NextSeq]_vars

\* one conversion with the expansion pass followed call by call; a call that
\* has started runs on: the interpreter executes it to its return
NextWalk == Calls(WalkPool, SeqUrdfPool, MaxWalkTop, 1) \/ WalkSteps

SpecWalk == Init /\ [][NextWalk]_vars /\ WF_vars(WalkSteps)

\* one conversion of a flat description into a template by a freshly
\* constructed converter, and the template converted back by another
NextSynth == Calls(SynthXacroPool, SynthPool, MaxSynthTop, 1) \/ SynthSteps

SpecSynth == Init /\ [][NextSynth]_vars

-----------------------------------------------------------------------------
(* Vocabulary of the properties *)

\* the nodes strictly below an element
RECURSIVE DescendantsOf(_)
DescendantsOf(element) ==
    UNION { {element.children[i]} \cup DescendantsOf(element.children[i]) :
            i \in 1..Len(element.children) }

NodesOf(element) == {element} \cup DescendantsOf(element)

DeclarationKeywords == {<<"property">>, <<"macro">>, <<"include">>}

\* the tag carries the template namespace (URI form) or the template prefix
InTemplateNamespace(tag) ==
    \/ StartsWith(tag, XacroNamespace)
    \/ StartsWith(tag, <<"xacro", ":">>)

\* parse_xacro has passed the point named
Collected == pc \in {"expand", "generate", "done"}
Expanded  == pc \in {"generate", "done"}

\* the nodes of the collected tree that the expansion pass visits as ordinary
\* elements: the root, and below an ordinary element every child that is
\* neither an invocation nor skipped
RECURSIVE OrdinaryNodes(_, _)
OrdinaryNodes(element, macs) ==
    {element} \cup
    UNION { OrdinaryNodes(element.children[i], macs) :
            i \in {j \in 1..Len(element.children) :
                     /\ ~_is_macro_call(element.children[j], macs)
                     /\ ~StartsWith(element.children[j].tag, <<"xacro", ":">>)} }

\* the invocations the expansion pass expands
InvocationsIn(element, macs) ==
    UNION { { n.children[i] : i \in {j \in 1..Len(n.children) :
                                        _is_macro_call(n.children[j], macs)} } :
            n \in OrdinaryNodes(element, macs) }

\* the attribute values and text of an element that resolution is applied to
ResolvedTexts(element) ==
    { element.attrib[k] : k \in {a \in DOMAIN element.attrib :
                                    ~StartsWith(a, <<"xmlns">>)} }
    \cup (IF StripTruthy(element.text) THEN {element.text} ELSE {})

\* what the code makes of one reference inside a macro body
BodyReference(a, params, props) ==
    _resolve_properties(props, _substitute_parameters(<<a>>, params))

\* an element of a macro body rewritten with Replace(a) put for each
\* reference a, in attributes and text, at every depth
RECURSIVE Rewritten(_, _)
Rewritten(element, replace) ==
    Element(element.tag,
            [k \in DOMAIN element.attrib |->
                re_sub(LAMBDA a : replace[a], element.attrib[k])],
            [i \in 1..Len(element.children) |->
                Rewritten(element.children[i], replace)],
            IF StripTruthy(element.text)
            THEN re_sub(LAMBDA a : replace[a], element.text) ELSE <<>>,
            <<>>)

References == {Reference(n) : n \in Identifiers}

\* the macro an invocation names, and the arguments it supplies for the
\* macro's declared parameters, each resolved in the caller's scope
MacroOf(call, macs) == macs[_get_local_tag(call.tag)]

Supplied(call, props, macs) ==
    LET names == SplitWords(Get(MacroOf(call, macs).attrib, <<"params">>, <<>>))
    IN  [k \in {a \in DOMAIN call.attrib :
                    \E j \in 1..Len(names) : names[j] = a} |->
            _resolve_properties(props, call.attrib[k])]

-----------------------------------------------------------------------------
(* C1: the tree that parse_xacro followed by generate_urdf produces holds,
   at no depth, a declaration node, a node in the template namespace or an
   invocation of a registered macro. *)
C1_NoTemplatingLeft ==
    pc = "done" =>
        \A n \in DescendantsOf(urdf_root) :
            /\ ~(_get_local_tag(n.tag) \in DeclarationKeywords
                 /\ InTemplateNamespace(n.tag))
            /\ ~InTemplateNamespace(n.tag)
            /\ ~_is_macro_call(n, macros)

(* C2: where a global property x is defined and an invocation supplies the
   declared parameter x, every ${x} of the macro body is replaced by the
   argument, whatever the argument is. *)
C2_ArgumentShadowsProperty ==
    Expanded =>
        \A call \in InvocationsIn(root, macros) :
            LET args == Supplied(call, properties, macros)
                replace == [a \in References |->
                              IF Group1(a) \in DOMAIN args
                                 /\ Group1(a) \in DOMAIN properties
                              THEN args[Group1(a)]
                              ELSE BodyReference(a, args, properties)]
                body == MacroOf(call, macros).children
            IN  _expand_macro_call(call, properties, macros)
                    = [i \in 1..Len(body) |-> Rewritten(body[i], replace)]

(* C3: an invocation expands to the body nodes of its macro, in body order,
   with every ${p} of a supplied declared parameter p replaced by the
   supplied value at every depth. *)
C3_ScopedBinding ==
    Expanded =>
        \A call \in InvocationsIn(root, macros) :
            LET args == Supplied(call, properties, macros)
                replace == [a \in References |->
                              IF Group1(a) \in DOMAIN args
                              THEN args[Group1(a)]
                              ELSE BodyReference(a, args, properties)]
                body == MacroOf(call, macros).children
            IN  _expand_macro_call(call, properties, macros)
                    = [i \in 1..Len(body) |-> Rewritten(body[i], replace)]

\* a macro whose body invokes no registered macro
IsLeafMacro(def, macs) ==
    \A i \in 1..Len(def.children) :
        \A n \in NodesOf(def.children[i]) : ~_is_macro_call(n, macs)

(* C4: when the body of a macro A invokes another registered macro B (whose
   own body invokes none), the expansion of an invocation of A holds no
   invocation of B: it was replaced by B's expanded body. *)
C4_NestedInvocationExpanded ==
    Expanded =>
        \A call \in InvocationsIn(root, macros) :
            \A i \in 1..Len(MacroOf(call, macros).children) :
                \A inner \in NodesOf(MacroOf(call, macros).children[i]) :
                    ( /\ _is_macro_call(inner, macros)
                      /\ IsLeafMacro(MacroOf(inner, macros), macros) )
                    => \A j \in 1..Len(_expand_macro_call(call, properties, macros)) :
                          \A n \in NodesOf(_expand_macro_call(call, properties, macros)[j]) :
                              n.tag # inner.tag

\* resolution as the precedence rule states it
RuleResolve(text, scope, props) ==
    re_sub(LAMBDA a : IF Group1(a) \in DOMAIN scope THEN scope[Group1(a)]
                      ELSE IF Group1(a) \in DOMAIN props THEN props[Group1(a)]
                      ELSE <<a>>,
           text)

(* C5: every text the expansion pass resolves outside a macro body comes out
   with each ${identifier} replaced by the property of that name if one was
   collected, whatever its value, and left verbatim otherwise. *)
C5_ResolutionPrecedence ==
    Collected =>
        \A n \in OrdinaryNodes(root, macros) :
            \A t \in ResolvedTexts(n) :
                _resolve_properties(properties, t) = RuleResolve(t, <<>>, properties)

\* an element without its i-th child
WithoutChild(element, i) ==
    [element EXCEPT !.children =
        SubSeq(@, 1, i - 1) \o SubSeq(@, i + 1, Len(@))]

(* C6: a child of the root in the template namespace whose name is no
   registered macro yields no output node: the expansion is what it would be
   without that child, its siblings in their order. *)
C6_UnknownMacroDropped ==
    Expanded =>
        \A i \in 1..Len(root.children) :
            ( /\ InTemplateNamespace(root.children[i].tag)
              /\ _get_local_tag(root.children[i].tag) \notin DOMAIN macros )
            => expanded_root =
                 _expand_xacro_elements(WithoutChild(root, i), properties, macros)

\* a template tag as the declaration-removal rule defines it
IsTemplateTag(tag) ==
    InTemplateNamespace(tag) \/ _get_local_tag(tag) \in DeclarationKeywords

(* C7: after collection the tree holds at no depth a template tag whose local
   name is property, macro or include. *)
C7_DeclarationsRemoved ==
    Collected =>
        \A n \in DescendantsOf(root) :
            ~(IsTemplateTag(n.tag) /\ _get_local_tag(n.tag) \in DeclarationKeywords)

\* the values of the declarations of a property in a document, in document
\* order
RECURSIVE DeclaredValues(_, _)
DeclaredValues(element, name) ==
    LET F[i \in 0..Len(element.children)] ==
            IF i = 0 THEN <<>>
            ELSE LET child == element.children[i]
                 IN  IF child.tag = XacroTag("property")
                     THEN IF Get(child.attrib, <<"name">>, <<>>) = name
                          THEN Append(F[i-1], Get(child.attrib, <<"value">>, <<>>))
                          ELSE F[i-1]
                     ELSE F[i-1] \o DeclaredValues(child, name)
    IN  F[Len(element.children)]

HasNoReference(text) == \A i \in 1..Len(text) : ~IsMatch(text[i])

(* C8: when a property is declared twice with different values, every
   reference to it that the expansion pass resolves, wherever its node stands
   relative to the declarations, becomes the value of the last declaration. *)
C8_LastDeclarationWins ==
    Expanded =>
        \A name \in Identifiers :
            LET values == DeclaredValues(content.root, <<name>>)
                last   == values[Len(values)]
            IN  ( /\ Len(values) >= 2
                  /\ \E i \in 1..Len(values) : values[i] # last
                  /\ HasNoReference(last) )
                => \A n \in OrdinaryNodes(root, macros) :
                      \A t \in ResolvedTexts(n) :
                          _resolve_properties(properties, t)
                            = re_sub(LAMBDA a : IF Group1(a) = <<name>> THEN last
                                                ELSE _resolve_properties(properties, <<a>>),
                                     t)

\* every text of an element: attribute values, text and tail
AllTexts(element) ==
    {element.attrib[k] : k \in DOMAIN element.attrib} \cup {element.text, element.tail}

\* a fully expanded document: no declaration, no invocation, no node in the
\* template namespace and no reference, at any depth
FullyExpanded(document, macs) ==
    \A n \in NodesOf(document) :
        /\ ~IsTemplateTag(n.tag)
        /\ ~_is_macro_call(n, macs)
        /\ \A t \in AllTexts(n) : HasNoReference(t)

\* no attribute that the expansion pass takes for a declaration of the
\* template namespace
NoNamespaceDeclaration(document) ==
    \A n \in NodesOf(document) :
        \A k \in DOMAIN n.attrib :
            ~(StartsWith(k, <<"xmlns">>) /\ Contains(n.attrib[k], "xacro"))

\* the same tag, the same attributes and the same children in the same order,
\* at every node
RECURSIVE SameStructure(_, _)
SameStructure(a, b) ==
    /\ a.tag = b.tag
    /\ a.attrib = b.attrib
    /\ Len(a.children) = Len(b.children)
    /\ \A i \in 1..Len(a.children) : SameStructure(a.children[i], b.children[i])

(* C9 as stated: expanding a fully expanded document returns a tree with the
   same tags, attributes and children at every node. *)
C9_RoundTrip ==
    (Expanded /\ FullyExpanded(content.root, macros))
        => SameStructure(expanded_root, content.root)

(* C9, amended: expanding a fully expanded document that also holds no
   attribute whose name begins with xmlns and whose value contains "xacro"
   returns a tree with the same tags, attributes and children at every node,
   and generate_urdf keeps the children of its root, in order. *)
C9_RoundTripWithoutNamespaceAttributes ==
    (Expanded /\ FullyExpanded(content.root, macros)
              /\ NoNamespaceDeclaration(content.root))
        => /\ SameStructure(expanded_root, content.root)
           /\ pc = "done" =>
                /\ Len(urdf_root.children) = Len(content.root.children)
                /\ \A i \in 1..Len(urdf_root.children) :
                      SameStructure(urdf_root.children[i], content.root.children[i])

\* a fully expanded document with nested elements has been expanded
C9_Witness ==
    /\ pc = "done"
    /\ FullyExpanded(content.root, macros)
    /\ NoNamespaceDeclaration(content.root)
    /\ Len(content.root.children) >= 2
    /\ \E i \in 1..Len(content.root.children) :
          Len(content.root.children[i].children) > 0

\* the text does not parse, or the root of what it parses to is not `robot`
Malformed(c) == ~c.wellformed \/ c.root.tag # <<"robot">>

(* C10: a call of parse_xacro or parse_urdf on a malformed document ends in
   the error with no collection or expansion step taken, and leaves the
   properties, macros and includes, and the links, joints and materials, as
   they were before the call. *)
C10_MalformedFailsFast ==
    [][ (calls' # calls /\ Malformed(content'))
            => /\ pc' = "error"
               /\ UNCHANGED <<properties, macros, includes>>
               /\ UNCHANGED <<links, joints, materials>> ]_vars

\* a malformed document was handed to a converter that holds properties and
\* macros of an earlier conversion
C10_Witness ==
    /\ pc = "error"
    /\ Malformed(content)
    /\ properties # <<>>
    /\ macros # <<>>

\* a property or macro declaration of the template namespace without a name
IsNamelessDeclaration(n) ==
    /\ n.tag \in {XacroTag("property"), XacroTag("macro")}
    /\ Get(n.attrib, <<"name">>, <<>>) = <<>>

\* the document without its nameless declarations, at every depth the
\* collector reaches
RECURSIVE WithoutNameless(_)
WithoutNameless(element) ==
    LET F[i \in 0..Len(element.children)] ==
            IF i = 0 THEN <<>>
            ELSE LET child == element.children[i]
                 IN  IF IsNamelessDeclaration(child) THEN F[i-1]
                     ELSE IF child.tag \in {XacroTag("property"), XacroTag("macro"),
                                            XacroTag("include")}
                     THEN Append(F[i-1], child)
                     ELSE Append(F[i-1], WithoutNameless(child))
    IN  [element EXCEPT !.children = F[Len(element.children)]]

(* C11: collection of a document leaves no nameless property or macro
   declaration in the tree, and leaves the tree, the properties, the macros
   and the includes exactly as collection of the same document without those
   declarations does. *)
C11_NamelessDeclarationsAreNoOps ==
    pc = "expand" =>
        LET r == _collect_xacro_elements(WithoutNameless(content.root),
                                         Converter(<<>>, <<>>, <<>>))
        IN  /\ \A n \in DescendantsOf(root) : ~IsNamelessDeclaration(n)
            /\ root = r.element
            /\ properties = r.conv.properties
            /\ macros = r.conv.macros
            /\ includes = r.conv.includes

\* a document with a nameless property and a nameless macro between two named
\* declarations has been collected
C11_Witness ==
    /\ pc = "expand"
    /\ \E n \in DescendantsOf(content.root) :
          IsNamelessDeclaration(n) /\ n.tag = XacroTag("property")
    /\ \E n \in DescendantsOf(content.root) :
          IsNamelessDeclaration(n) /\ n.tag = XacroTag("macro")
    /\ {<<"x">>, <<"y">>} \subseteq DOMAIN properties
    /\ macros # <<>>

(* C12: the step that runs the expansion pass changes neither the collected
   input tree nor the properties, the macros (bodies included) or the
   includes: it only produces the expanded tree. *)
C12_ExpansionIsPure ==
    [][ pc = "expand" => UNCHANGED <<root, content, properties, macros, includes>> ]_vars

\* an expansion that replaced an invocation and resolved a property has run
C12_Witness ==
    /\ pc = "generate"
    /\ InvocationsIn(root, macros) # {}
    /\ properties # <<>>
    /\ expanded_root # root

\* what a freshly constructed XacroToURDFConverter makes of a document: the
\* stores after collection and the expanded tree
FreshConversion(c) ==
    LET r == _collect_xacro_elements(c.root, Converter(<<>>, <<>>, <<>>))
    IN  [conv     |-> r.conv,
         expanded |-> _expand_xacro_elements(r.element, r.conv.properties,
                                             r.conv.macros)]

(* C13: whatever calls were made before on the same objects, a finished
   conversion leaves the output and the stores that a fresh converter would
   give for the same document, and a finished parse_urdf leaves the links,
   joints and materials that a fresh converter would extract from it. *)
C13_NoStateAcrossConversions ==
    /\ pc = "done" =>
          /\ expanded_root = FreshConversion(content).expanded
          /\ urdf_root.children
                = generate_urdf(<<>>, FreshConversion(content).expanded).children
          /\ Converter(properties, macros, includes) = FreshConversion(content).conv
    /\ pc = "parsed" =>
          UrdfConverter(links, joints, materials)
            = parse_urdf(content, UrdfConverter(<<>>, <<>>, <<>>)).conv

\* what one pass over a macro body puts for the reference a: the argument
\* the code takes for it, else the property the code takes for it, else the
\* reference itself; what is put is not looked at again
SinglePass(a, params, props) ==
    IF Get(params, Group1(a), <<>>) # <<>>
    THEN params[Group1(a)]
    ELSE Or(Get(props, Group1(a), <<a>>), <<a>>)

(* C14: an invocation expands to the body of its macro with every reference
   replaced once: the text put for a reference (an argument or a property
   value) is in the output as it is, also when it holds a reference to a
   defined property. *)
C14_SinglePassSubstitution ==
    Expanded =>
        \A call \in InvocationsIn(root, macros) :
            LET args == Supplied(call, properties, macros)
                replace == [a \in References |-> SinglePass(a, args, properties)]
                body == MacroOf(call, macros).children
            IN  _expand_macro_call(call, properties, macros)
                    = [i \in 1..Len(body) |-> Rewritten(body[i], replace)]

\* the named property declarations the collector meets, as <<name, value>>,
\* in depth-first pre-order
RECURSIVE PropertyDeclarations(_)
PropertyDeclarations(element) ==
    LET F[i \in 0..Len(element.children)] ==
            IF i = 0 THEN <<>>
            ELSE LET child == element.children[i]
                 IN  IF child.tag = XacroTag("property")
                     THEN IF Get(child.attrib, <<"name">>, <<>>) # <<>>
                          THEN Append(F[i-1], <<child.attrib[<<"name">>],
                                                Get(child.attrib, <<"value">>, <<>>)>>)
                          ELSE F[i-1]
                     ELSE IF child.tag \in {XacroTag("macro"), XacroTag("include")}
                     THEN F[i-1]
                     ELSE F[i-1] \o PropertyDeclarations(child)
    IN  F[Len(element.children)]

\* the store a single forward pass over the declarations builds: each value
\* is stored with the references to already stored names replaced by their
\* values and every other reference left as it is
ForwardStore(declarations) ==
    LET F[i \in 0..Len(declarations)] ==
            IF i = 0 THEN <<>>
            ELSE DictSet(F[i-1], declarations[i][1],
                         RuleResolve(declarations[i][2], <<>>, F[i-1]))
    IN  F[Len(declarations)]

(* C15: after collection by a fresh converter the properties are what one
   forward pass over the declarations gives: a reference ${q} in a declared
   value is replaced by q's value exactly when q was declared earlier in
   depth-first pre-order, and a reference to a name declared later is stored
   as it is and stays so. *)
C15_ForwardPassDefinition ==
    Collected => properties = ForwardStore(PropertyDeclarations(content.root))

\* macro a's body holds, at some depth, an invocation of macro b
Invokes(a, b, macs) ==
    \E i \in 1..Len(macs[a].children) :
        \E n \in NodesOf(macs[a].children[i]) :
            _is_macro_call(n, macs) /\ _get_local_tag(n.tag) = b

\* the macros reachable from a through at most k invocations in bodies
RECURSIVE InvokedWithin(_, _, _)
InvokedWithin(a, k, macs) ==
    IF k = 0 THEN {a}
    ELSE LET R == InvokedWithin(a, k - 1, macs)
         IN  R \cup {b \in DOMAIN macs : \E c \in R : Invokes(c, b, macs)}

\* macro a invokes itself, directly or through other macros
SelfReferential(a, macs) ==
    \E c \in InvokedWithin(a, Cardinality(DOMAIN macs), macs) : Invokes(c, a, macs)

NoSelfReference(macs) == \A a \in DOMAIN macs : ~SelfReferential(a, macs)

(* C16: when no collected macro invokes itself directly or transitively, an
   expansion pass that has started makes its calls one after the other until
   none is pending, and returns the expanded tree. *)
C16_ExpansionTerminates ==
    (pc = "expand" /\ NoSelfReference(macros)) ~> (pc = "generate")

\* the expansion of a document that invokes a macro whose body is nested, with
\* no self-referential macro, has returned
C16_Witness ==
    /\ pc = "generate"
    /\ NoSelfReference(macros)
    /\ \E call \in InvocationsIn(root, macros) :
          \E i \in 1..Len(MacroOf(call, macros).children) :
              MacroOf(call, macros).children[i].children # <<>>
    /\ expanded_root # root

(* C17: when the document invokes a macro that invokes itself, directly or
   through other macros, the expansion pass never returns. *)
C17_SelfReferenceNeverReturns ==
    (\E call \in InvocationsIn(root, macros) :
        SelfReferential(_get_local_tag(call.tag), macros))
    => pc \notin {"generate", "done"}

\* the link and joint elements of the flat input, in document order
InputLinks == FindAll(original_root, <<"link">>)

InputJoints == FindAll(original_root, <<"joint">>)

NameOf(element) == Get(element.attrib, <<"name">>, <<>>)

\* no two link elements of the input have the same name, and no two joint
\* elements
DistinctNames ==
    /\ \A i, j \in 1..Len(InputLinks) :
          i # j => NameOf(InputLinks[i]) # NameOf(InputLinks[j])
    /\ \A i, j \in 1..Len(InputJoints) :
          i # j => NameOf(InputJoints[i]) # NameOf(InputJoints[j])

\* the pattern groups of the links the converter holds
Groups == _identify_common_patterns(links)

\* the link element e is the element of a member of a pattern group
InGroup(e) ==
    \E g \in 1..Len(Groups) : \E k \in 1..Len(Groups[g][2]) :
        Groups[g][2][k].element = e

\* the positions of the input's link elements that are in no group
Ungrouped == {i \in 1..Len(InputLinks) : ~InGroup(InputLinks[i])}

\* the top-level macro definition of the generated document
MainMacro == Find(xacro_root, <<"xacro", ":", "macro">>)

\* the positions of the children of the top-level macro with this tag
MainChildren(tag) ==
    {k \in 1..Len(MainMacro.children) : MainMacro.children[k].tag = tag}

\* the name a plain link of the generated document has for a link called name
PlainLinkName(name) ==
    IF name = <<"base_link">> THEN <<Reference("prefix"), Reference("base_link_name")>>
    ELSE <<Reference("prefix")>> \o name

\* the link_name argument of the invocation generated for a link called name
ArgumentName(name) ==
    IF name = <<"base_link">> THEN <<Reference("base_link_name")>> ELSE name

\* every pattern group has one macro definition and one invocation per
\* member, every ungrouped link element and every joint element of the input
\* has its own element, and the document has one top-level macro definition
\* and one invocation of it
EveryInputOnce ==
    /\ \A g \in 1..Len(Groups) :
          /\ Cardinality({k \in MainChildren(<<"xacro", ":", "macro">>) :
                NameOf(MainMacro.children[k]) = Groups[g][1] \o <<"_link">>}) = 1
          /\ \A m \in 1..Len(Groups[g][2]) :
                Cardinality({k \in MainChildren(<<"xacro", ":">> \o Groups[g][1]
                                                \o <<"_link">>) :
                    MainMacro.children[k].attrib[<<"link_name">>]
                        = ArgumentName(Groups[g][2][m].name)}) = 1
    /\ Cardinality(MainChildren(<<"xacro", ":", "macro">>)) = Len(Groups)
    /\ \A i \in Ungrouped :
          Cardinality({k \in MainChildren(<<"link">>) :
                NameOf(MainMacro.children[k])
                    = PlainLinkName(NameOf(InputLinks[i]))}) = 1
    /\ Cardinality(MainChildren(<<"link">>)) = Cardinality(Ungrouped)
    /\ \A i \in 1..Len(InputJoints) :
          Cardinality({k \in MainChildren(<<"joint">>) :
                NameOf(MainMacro.children[k])
                    = <<Reference("prefix")>> \o NameOf(InputJoints[i])}) = 1
    /\ Cardinality(MainChildren(<<"joint">>)) = Len(InputJoints)
    /\ Cardinality({k \in 1..Len(xacro_root.children) :
          xacro_root.children[k].tag = <<"xacro", ":", "macro">>}) = 1
    /\ Cardinality({k \in 1..Len(xacro_root.children) :
          xacro_root.children[k].tag
              = <<"xacro", ":">> \o xacro_root.attrib[<<"name">>]}) = 1

(* C18, as stated: in the document generate_xacro builds, every pattern group
   has exactly one macro definition and one invocation per member, every
   link element of the input that is in no group is there exactly once as a
   plain link, every joint element exactly once, and there is exactly one
   top-level macro definition and one invocation of it. *)
C18_EveryInputOnce == pc = "xacro" => EveryInputOnce

(* C18, amended: the same, for an input whose link elements have pairwise
   different names and whose joint elements have pairwise different names. *)
C18_EveryInputOnceGivenDistinctNames ==
    (pc = "xacro" /\ DistinctNames) => EveryInputOnce

\* a template was generated from an input with distinct names that has a
\* pattern group, a link in no group and a joint
C18_Witness ==
    /\ pc = "xacro"
    /\ DistinctNames
    /\ Len(Groups) > 0
    /\ Ungrouped # {}
    /\ InputJoints # <<>>

\* the template generated from the flat input was converted back
RoundTripped == pc = "done" /\ xacro_root # NoElement

(* C19: when a flat document with distinct link and joint names is converted
   into a template and the template is converted back, every link and joint
   of the input is a top-level child of the result under its original name,
   every top-level link and joint of the result is one of the input, and no
   macro definition, invocation or reference is left in the result. *)
C19_CrossDirectionRoundTrip ==
    (RoundTripped /\ DistinctNames) =>
        LET Out(tag) == {k \in 1..Len(urdf_root.children) :
                            urdf_root.children[k].tag = tag}
        IN  /\ \A i \in 1..Len(InputLinks) :
                  Cardinality({k \in Out(<<"link">>) :
                      NameOf(urdf_root.children[k]) = NameOf(InputLinks[i])}) = 1
            /\ Cardinality(Out(<<"link">>)) = Len(InputLinks)
            /\ \A i \in 1..Len(InputJoints) :
                  Cardinality({k \in Out(<<"joint">>) :
                      NameOf(urdf_root.children[k]) = NameOf(InputJoints[i])}) = 1
            /\ Cardinality(Out(<<"joint">>)) = Len(InputJoints)
            /\ \A n \in NodesOf(urdf_root) :
                  /\ ~InTemplateNamespace(n.tag)
                  /\ \A k \in DOMAIN n.attrib : HasNoReference(n.attrib[k])
                  /\ HasNoReference(n.text)

====
